---- MODULE Spec2Model ----
(***************************************************************************)
(* Layer canvas: the immer reducer behind useReducer (the gesture/state    *)
(* engine) and the touch normalizer (TouchDraggable) wired to the Canvas   *)
(* handlers.                                                               *)
(*                                                                         *)
(* JavaScript values: numbers are integers; the number NaN is the string   *)
(* "NaN"; the value undefined is the record Undefined; null is Null.  An   *)
(* exception is recorded by its name in the variable thrown.  Rendering is *)
(* not modelled.                                                           *)
(***************************************************************************)
EXTENDS Integers, Sequences, FiniteSets, TLC

\* ------------------------------------------------------------------ bounds
\* layers in a drawn layer collection
MaxLayers == 2
\* deltas of moved / resized are -MaxDelta .. MaxDelta
MaxDelta == 1
\* angles of rotated are 0 .. MaxTheta
MaxTheta == 1
\* clientX / clientY of a touch are 0 .. MaxCoord
MaxCoord == 1
\* contact points in changedTouches are 0 .. MaxTouches
MaxTouches == 2

\* ------------------------------------------------------------------ values
Undefined == [undefined |-> TRUE]
Null == [null |-> TRUE]
NaN == "NaN"
NoAction == [type |-> "none"]

\* part_000:112-124
initialState ==
  [ layers |-> << [id |-> 1, width |-> 200, height |-> 100,
                   positionX |-> 0, positionY |-> 0, rotate |-> 0] >>,
    initialTransforms |-> << >> ]

\* geometries a drawn layer or a drawn snapshot entry takes; the first is the seed's
Geoms ==
  { [width |-> 200, height |-> 100, positionX |-> 0, positionY |-> 0, rotate |-> 0],
    [width |-> 201, height |-> 99, positionX |-> 1, positionY |-> -1, rotate |-> 1],
    [width |-> 1, height |-> 1, positionX |-> -1, positionY |-> 1, rotate |-> 0] }

\* interface Layer: a geometry with an id
MkLayer(i, g) ==
  [id |-> i, width |-> g.width, height |-> g.height,
   positionX |-> g.positionX, positionY |-> g.positionY, rotate |-> g.rotate]

\* interface State, bounded: layers with ids 1..n in insertion order; the
\* snapshot map is empty (Idle) or has an entry for every layer (Active)
States ==
  UNION { { [layers |-> [i \in 1..n |-> MkLayer(i, gs[i])], initialTransforms |-> it] :
              gs \in [1..n -> Geoms],
              it \in {<< >>} \cup [1..n -> Geoms] } :
          n \in 1..MaxLayers }

Deltas == (0 - MaxDelta)..MaxDelta
Thetas == 0..MaxTheta
\* ids an action payload names: those of layers and one that no layer has
PayloadIds == 1..(MaxLayers + 1)

\* KnownLayerActions: the five action variants the reducer switches on
Actions ==
  { [type |-> "layer/moveStarted", id |-> i] : i \in PayloadIds }
  \cup { [type |-> "layer/moved", dx |-> dx, dy |-> dy] : dx \in Deltas, dy \in Deltas }
  \cup { [type |-> "layer/moveEnded"] }
  \cup { [type |-> "layer/resized", dx |-> dx, dy |-> dy] : dx \in Deltas, dy \in Deltas }
  \cup { [type |-> "layer/rotated", id |-> i, nextTheta |-> t] :
           i \in PayloadIds, t \in Thetas }

\* LayerActions.moveStarted(Number(undefined)): the id of an element without data-layer-id
moveStartedNaN == [type |-> "layer/moveStarted", id |-> NaN]

\* ------------------------------------------------------------- JS helpers
\* obj.k = v on a draft object: sets or adds the property k
SetField(obj, k, v) ==
  [f \in DOMAIN obj \cup {k} |-> IF f = k THEN v ELSE obj[f]]

\* const { k } = obj; k + d : a missing property is undefined, undefined + d is NaN
FieldPlus(obj, k, d) ==
  IF k \in DOMAIN obj THEN obj[k] + d ELSE NaN

\* lodash pick(layer, ['width','height','positionX','positionY','rotate'])
pick(layer) ==
  [width |-> layer.width, height |-> layer.height,
   positionX |-> layer.positionX, positionY |-> layer.positionY,
   rotate |-> layer.rotate]

\* record[key] = value on the snapshot map
Put(map, key, value) ==
  [k \in DOMAIN map \cup {key} |-> IF k = key THEN value ELSE map[k]]

\* ------------------------------------------------ the recipe given to produce
\* case 'layer/moveStarted': layers.forEach(layer => initialTransforms[layer.id] = pick(layer))
RECURSIVE SnapshotAll(_, _, _)
SnapshotAll(layers, map, i) ==
  IF i > Len(layers) THEN map
  ELSE SnapshotAll(layers, Put(map, layers[i].id, pick(layers[i])), i + 1)

caseMoveStarted(s, a) ==
  [threw |-> "none",
   value |-> [s EXCEPT !.initialTransforms = SnapshotAll(s.layers, s.initialTransforms, 1)]]

\* a moved that adds the delta to the layer's own position
MovedLayerCompounding(layer, map, dx, dy) ==
  IF layer.id \notin DOMAIN map THEN layer
  ELSE SetField(SetField(layer, "positionX", layer.positionX + dx),
                "positionY", layer.positionY + dy)

\* case 'layer/moved': the transform is destructured as { x, y }, properties a
\* Transform does not have, and the sums are assigned to layer.x and layer.y
MovedLayer(layer, map, dx, dy) ==
  IF layer.id \notin DOMAIN map THEN layer
  ELSE SetField(SetField(layer, "x", FieldPlus(map[layer.id], "x", dx)),
                "y", FieldPlus(map[layer.id], "y", dy))

caseMoved(s, a) ==
  [threw |-> "none",
   value |-> [s EXCEPT !.layers =
                [i \in 1..Len(s.layers) |-> MovedLayer(s.layers[i], s.initialTransforms, a.dx, a.dy)]]]

\* case 'layer/moveEnded': state.initialTransforms = {}
caseMoveEnded(s, a) ==
  [threw |-> "none", value |-> [s EXCEPT !.initialTransforms = << >>]]

\* case 'layer/resized': the transform is destructured as { width, height } and
\* then x + dx is evaluated: x is bound nowhere, so the first layer that has a
\* snapshot entry raises ReferenceError and produce rethrows it
caseResized(s, a) ==
  IF \E i \in 1..Len(s.layers) : s.layers[i].id \in DOMAIN s.initialTransforms
  THEN [threw |-> "ReferenceError", value |-> s]
  ELSE [threw |-> "none", value |-> s]

\* case 'layer/rotated': layers.find(layer => layer.id === id); if found, rotate = nextTheta
caseRotated(s, a) ==
  LET found == { i \in 1..Len(s.layers) : s.layers[i].id = a.id } IN
  IF found = {} THEN [threw |-> "none", value |-> s]
  ELSE LET first == CHOOSE i \in found : \A j \in found : i <= j IN
       [threw |-> "none",
        value |-> [s EXCEPT !.layers[first] = SetField(s.layers[first], "rotate", a.nextTheta)]]

\* produce(currentState, recipe): the next state the recipe builds from the
\* draft, or the exception the recipe raises; the base value is not changed
Produce(s, a) ==
  CASE a.type = "layer/moveStarted" -> caseMoveStarted(s, a)
    [] a.type = "layer/moved" -> caseMoved(s, a)
    [] a.type = "layer/moveEnded" -> caseMoveEnded(s, a)
    [] a.type = "layer/resized" -> caseResized(s, a)
    [] a.type = "layer/rotated" -> caseRotated(s, a)
    [] OTHER -> [threw |-> "none", value |-> s]

\* currentState = initialState : the default applies when the argument is undefined
DefaultParam(currentState) ==
  IF currentState = Undefined THEN initialState ELSE currentState

\* reducer: the arrow function's body is the statement produce(...); with no
\* return, so a call that does not throw evaluates to undefined
reducer(currentState, a) ==
  LET p == Produce(DefaultParam(currentState), a) IN
  IF p.threw # "none" THEN [threw |-> p.threw, value |-> Undefined]
  ELSE [threw |-> "none", value |-> Undefined]

\* ------------------------------------------------------------ touch events
\* the element a listener is registered on: it carries no data-layer-id
Element == [dataset |-> << >>]

Coords == 0..MaxCoord
\* a Touch of changedTouches
Touches == { [clientX |-> x, clientY |-> y] : x \in Coords, y \in Coords }
\* changedTouches: the contacts this event is about, one or several (the further
\* contacts sit beside the first; the handlers read only the length and the first)
TouchLists ==
  { [i \in 1..n |-> [clientX |-> t.clientX + (i - 1), clientY |-> t.clientY]] :
      t \in Touches, n \in 1..MaxTouches }

\* TouchEvent: the fields the handlers read (currentTarget, target, changedTouches)
\* and touches, the number of contacts on the surface when the event is delivered.
\* touchstart, touchmove: the changed contacts are among those on the surface
TouchEvents ==
  { [currentTarget |-> c, target |-> t, changedTouches |-> ts, touches |-> n] :
      c \in {Null, Element}, t \in {Null, Element}, ts \in TouchLists,
      n \in 1..MaxTouches }
StartMoveEvents == { e \in TouchEvents : e.touches >= Len(e.changedTouches) }

\* touchend: the changed contacts have left the surface
EndEvents ==
  UNION { { [currentTarget |-> c, target |-> t, changedTouches |-> ts, touches |-> n] :
              c \in {Null, Element}, t \in {Null, Element},
              n \in 0..(MaxTouches - Len(ts)) } :
          ts \in TouchLists }

NoEvent == [kind |-> "none"]

\* ---------------------------------------------------------- Canvas handlers
\* what a handler call does: the actions it dispatches, and the exception it raises
\* Canvas.onDragStart: Number(e.currentTarget.dataset.layerId), then dispatch(moveStarted(layerId))
LayerIdOf(e) ==
  IF "layerId" \in DOMAIN e.currentTarget.dataset
  THEN e.currentTarget.dataset.layerId ELSE NaN

onDragStart(x, y, e) ==
  [threw |-> "none",
   actions |-> << [type |-> "layer/moveStarted", id |-> LayerIdOf(e)] >>]

\* Canvas.onMove: dispatch(LayerActions.moved(dx, dy))
onMove(dx, dy) ==
  [threw |-> "none", actions |-> << [type |-> "layer/moved", dx |-> dx, dy |-> dy] >>]

\* Canvas.onDragEnd: declared with no parameter, its first statement is
\* e.stopPropagation(): e is bound nowhere, so the call raises ReferenceError
\* before dispatch (LayerActions.dragEnded, in the next statement, does not exist)
onDragEnd ==
  [threw |-> "ReferenceError", actions |-> << >>]

\* ---------------------------------------------------------- RotateHandler
\* props.parentCenter: the pivot [cx, cy] the component is rendered with
Centers == Coords \X Coords

Abs(n) == IF n < 0 THEN -n ELSE n

RECURSIVE GCD(_, _)
GCD(m, n) == IF n = 0 THEN m ELSE GCD(n, m % n)

\* Math.atan2(vy, vx): the angle of the direction (vx, vy), kept as that direction
\* in lowest terms, so that two angles are equal exactly when the directions are;
\* atan2(0, 0) is 0, the angle of (1, 0)
Atan2(vy, vx) ==
  IF vy = 0 /\ vx = 0 THEN [vy |-> 0, vx |-> 1]
  ELSE LET g == GCD(Abs(vy), Abs(vx)) IN [vy |-> vy \div g, vx |-> vx \div g]

\* RotateHandler.onMove(_dx, _dy, x, y), called with args: its first statement reads
\* props.parentCenter, and the component destructures its props in the parameter
\* list, so props is bound nowhere and the call raises ReferenceError; the
\* statements after it (x and y are the third and fourth arguments,
\* LayerActions.rotate is not a member of LayerActions) are not reached
RotateHandlerOnMove(args, parentCenter) ==
  [threw |-> "ReferenceError", actions |-> << >>]

\* --------------------------------------------------------- TouchDraggable
\* _onTouchStart: the two early returns
StartGuard(e) ==
  /\ e.currentTarget # Null /\ e.target # Null
  /\ Len(e.changedTouches) = 1

\* _onTouchMove: the three early returns
MoveGuard(e, touch0) ==
  /\ e.currentTarget # Null /\ e.target # Null
  /\ Len(e.changedTouches) = 1
  /\ touch0 # Undefined

\* a listener that stops propagation only of the events it goes on to handle
StopsWhenHandled(kind, e, touch0) ==
  CASE kind = "touchstart" -> StartGuard(e)
    [] kind = "touchmove" -> MoveGuard(e, touch0)
    [] OTHER -> TRUE

\* e.stopPropagation() is the first statement of _onTouchStart, _onTouchMove and
\* _onTouchEnd, ahead of every early return
StopsPropagation(kind, e, touch0) == TRUE

\* the listeners are registered with { passive: true } and no capture, so they run
\* in the bubble phase: after the listener of the innermost region, the event goes
\* on to the listener of the enclosing region unless propagation was stopped
ReachedNormalizers(isStopped) ==
  IF isStopped THEN << "inner" >> ELSE << "inner", "outer" >>

TouchKinds == {"touchstart", "touchmove", "touchend"}

\* a move that passes the pointer position instead of the offset from the start
MoveDeltaAbsolute(e, touch0) ==
  [dx |-> e.changedTouches[1].clientX,
   dy |-> e.changedTouches[1].clientY]

\* _onTouchMove: the arguments of handlers.onMove(clientX - x, clientY - y)
MoveDelta(e, touch0) ==
  [dx |-> e.changedTouches[1].clientX - touch0.x,
   dy |-> e.changedTouches[1].clientY - touch0.y]

\* ------------------------------------------------------------------- state
VARIABLES
  state,        \* the state useReducer holds
  prev,         \* the state the reducer worked on in the last step (its parameter after
                \* the default), Undefined when the step did not call it
  act,          \* the action the last step dispatched, NoAction when it dispatched none
  prod,         \* what produce evaluated to in the last step (the reducer drops it)
  thrown,       \* the exception the last step raised, "none" when it returned
  initialTouch, \* TouchDraggable.initialTouch: { x, y } or Undefined
  event,        \* the raw event the last step ran a listener on, or the lifecycle call
                \* it made; NoEvent when it did neither
  calls,        \* the handler calls the last step made, in order
  stopped,      \* whether the last step called e.stopPropagation()
  listeners,    \* the event types the element has a listener of this normalizer for
  started       \* history: handlers.onDragStart was called and handlers.onDragEnd
                \* has not been called since

touchVars == <<initialTouch, event, calls, stopped, listeners, started>>
vars == <<state, prev, act, prod, thrown, initialTouch, event, calls, stopped,
          listeners, started>>

\* const [state, dispatch] = useReducer(reducer, initialState); dispatch(a)
\* makes the held state reducer(state, a); a reducer that throws leaves it
Dispatch(a) ==
  LET r == reducer(state, a) IN
  /\ state' = IF r.threw # "none" THEN state ELSE r.value
  /\ prev' = DefaultParam(state)
  /\ act' = a
  /\ prod' = Produce(DefaultParam(state), a)
  /\ thrown' = r.threw

\* a step that dispatches nothing and raises exc
NoDispatch(exc) ==
  /\ UNCHANGED state
  /\ prev' = Undefined
  /\ act' = NoAction
  /\ prod' = Undefined
  /\ thrown' = exc

\* a handler call's effect on the engine: its one dispatch, or its exception
Handle(h) ==
  IF h.threw = "none" /\ Len(h.actions) = 1 THEN Dispatch(h.actions[1])
  ELSE NoDispatch(h.threw)

\* _onTouchStart
TouchStart(e) ==
  /\ event' = [kind |-> "touchstart", e |-> e]
  /\ stopped' = StopsPropagation("touchstart", e, initialTouch)
  /\ UNCHANGED listeners
  /\ IF StartGuard(e)
     THEN LET x == e.changedTouches[1].clientX
              y == e.changedTouches[1].clientY IN
          /\ initialTouch' = [x |-> x, y |-> y]
          /\ calls' = << [fn |-> "onDragStart", x |-> x, y |-> y] >>
          /\ started' = TRUE
          /\ Handle(onDragStart(x, y, e))
     ELSE /\ UNCHANGED <<initialTouch, started>>
          /\ calls' = << >>
          /\ NoDispatch("none")

\* _onTouchMove
TouchMove(e) ==
  /\ event' = [kind |-> "touchmove", e |-> e]
  /\ stopped' = StopsPropagation("touchmove", e, initialTouch)
  /\ UNCHANGED listeners
  /\ UNCHANGED <<initialTouch, started>>
  /\ IF MoveGuard(e, initialTouch)
     THEN LET d == MoveDelta(e, initialTouch) IN
          /\ calls' = << [fn |-> "onMove", dx |-> d.dx, dy |-> d.dy] >>
          /\ Handle(onMove(d.dx, d.dy))
     ELSE /\ calls' = << >>
          /\ NoDispatch("none")

\* _onTouchEnd: handlers.onDragEnd(e), then this.initialTouch = undefined; the
\* assignment is not reached when the handler throws
TouchEnd(e) ==
  /\ event' = [kind |-> "touchend", e |-> e]
  /\ stopped' = StopsPropagation("touchend", e, initialTouch)
  /\ UNCHANGED listeners
  /\ calls' = << [fn |-> "onDragEnd"] >>
  /\ started' = FALSE
  /\ Handle(onDragEnd)
  /\ initialTouch' = IF onDragEnd.threw = "none" THEN Undefined ELSE initialTouch

\* new TouchDraggable(element, handlers): the constructor reads this.Element, and
\* the parameter property is element, so this.Element is undefined and the first
\* addEventListener call raises TypeError; nothing is registered
Construct ==
  /\ event' = [kind |-> "construct"]
  /\ listeners' = listeners
  /\ calls' = << >>
  /\ stopped' = FALSE
  /\ UNCHANGED <<initialTouch, started>>
  /\ NoDispatch("TypeError")

\* destroy(), also the body of the effect's cleanup: it reads this.Element as the
\* constructor does, so the first removeEventListener call raises TypeError
Destroy ==
  /\ event' = [kind |-> "destroy"]
  /\ listeners' = listeners
  /\ calls' = << >>
  /\ stopped' = FALSE
  /\ UNCHANGED <<initialTouch, started>>
  /\ NoDispatch("TypeError")

\* the Canvas after its first render: the seed state, and a normalizer with no
\* listener registered and no start recorded.  The three listener functions are
\* run on an event by whoever holds them; what the element has registered is
\* kept in listeners
Init ==
  /\ state = initialState
  /\ prev = Undefined
  /\ act = NoAction
  /\ prod = Undefined
  /\ thrown = "none"
  /\ initialTouch = Undefined
  /\ event = NoEvent
  /\ calls = << >>
  /\ stopped = FALSE
  /\ listeners = {}
  /\ started = FALSE

Next ==
  \/ \E e \in StartMoveEvents : TouchStart(e)
  \/ \E e \in StartMoveEvents : TouchMove(e)
  \/ \E e \in EndEvents : TouchEnd(e)
  \/ Construct
  \/ Destroy

Spec == Init /\ [][Next]_vars

\* the normalizer of a rotate handle (useDrag in RotateHandler) at any point of a
\* gesture, the engine in its seed state
InitRotate ==
  /\ state = initialState
  /\ prev = Undefined
  /\ act = NoAction
  /\ prod = Undefined
  /\ thrown = "none"
  /\ initialTouch \in {Undefined} \cup { [x |-> t.clientX, y |-> t.clientY] : t \in Touches }
  /\ event = NoEvent
  /\ calls = << >>
  /\ stopped = FALSE
  /\ listeners = {}
  /\ started = (initialTouch # Undefined)

\* _onTouchMove with RotateHandler.onMove as handlers.onMove: the call passes the
\* two offsets and nothing else
RotateMove(e, c) ==
  /\ event' = [kind |-> "touchmove", e |-> e, parentCenter |-> c]
  /\ stopped' = StopsPropagation("touchmove", e, initialTouch)
  /\ UNCHANGED listeners
  /\ UNCHANGED <<initialTouch, started>>
  /\ IF MoveGuard(e, initialTouch)
     THEN LET d == MoveDelta(e, initialTouch) IN
          /\ calls' = << [fn |-> "onMove", dx |-> d.dx, dy |-> d.dy] >>
          /\ Handle(RotateHandlerOnMove(<<d.dx, d.dy>>, c))
     ELSE /\ calls' = << >>
          /\ NoDispatch("none")

NextRotate ==
  \E e \in StartMoveEvents : \E c \in Centers : RotateMove(e, c)

SpecRotate == InitRotate /\ [][NextRotate]_vars

\* the reducer as a function: useReducer over a drawn state and any action
InitReducer ==
  /\ state \in States
  /\ prev = Undefined
  /\ act = NoAction
  /\ prod = Undefined
  /\ thrown = "none"
  /\ initialTouch = Undefined
  /\ event = NoEvent
  /\ calls = << >>
  /\ stopped = FALSE
  /\ listeners = {}
  /\ started = FALSE

DispatchAction(a) ==
  /\ Dispatch(a)
  /\ UNCHANGED touchVars

DispatchStarted ==
  /\ Dispatch(moveStartedNaN)
  /\ UNCHANGED touchVars

NextReducer ==
  \/ \E a \in Actions : DispatchAction(a)
  \/ DispatchStarted

SpecReducer == InitReducer /\ [][NextReducer]_vars

\* ============================================== what the recipe builds
\* The state produce evaluates to, which the reducer drops.  Each holds in
\* every state of SpecReducer.

\* the recipe of 'layer/moveEnded' empties the snapshot map and keeps the layers
RecipeMoveEnded ==
  act.type = "layer/moveEnded" =>
    /\ prod.threw = "none"
    /\ DOMAIN prod.value.initialTransforms = {}
    /\ prod.value.layers = prev.layers

\* the recipe of 'layer/moved' and of 'layer/resized' returns its input when the
\* snapshot map is empty
RecipeNoSnapshot ==
  (act.type \in {"layer/moved", "layer/resized"} /\ prev # Undefined
     /\ DOMAIN prev.initialTransforms = {}) =>
    /\ prod.threw = "none"
    /\ prod.value = prev

\* the recipe of 'layer/rotated' replaces the rotate of the layer with the id, only
RecipeRotated ==
  act.type = "layer/rotated" =>
    /\ prod.threw = "none"
    /\ prod.value.initialTransforms = prev.initialTransforms
    /\ Len(prod.value.layers) = Len(prev.layers)
    /\ \A i \in 1..Len(prev.layers) :
         IF prev.layers[i].id = act.id
         THEN prod.value.layers[i] = [prev.layers[i] EXCEPT !.rotate = act.nextTheta]
         ELSE prod.value.layers[i] = prev.layers[i]

\* the recipe of 'layer/moveStarted' snapshots every layer and keeps the layers
RecipeMoveStarted ==
  act.type = "layer/moveStarted" =>
    /\ prod.threw = "none"
    /\ prod.value.layers = prev.layers
    /\ DOMAIN prod.value.initialTransforms = { prev.layers[i].id : i \in 1..Len(prev.layers) }
    /\ \A i \in 1..Len(prev.layers) :
         prod.value.initialTransforms[prev.layers[i].id] = pick(prev.layers[i])

\* the recipes of 'layer/moved' and 'layer/rotated' assign no snapshot entry
RecipeKeepsSnapshots ==
  act.type \in {"layer/moved", "layer/rotated"} =>
    /\ prod.threw = "none"
    /\ prod.value.initialTransforms = prev.initialTransforms

\* the recipe of 'layer/moved' gives every layer that has a snapshot entry the
\* properties x and y, and leaves the layer's other properties as they were
RecipeMovedAddsFields ==
  act.type = "layer/moved" =>
    \A i \in 1..Len(prev.layers) :
      prev.layers[i].id \in DOMAIN prev.initialTransforms =>
        /\ DOMAIN prod.value.layers[i] = DOMAIN prev.layers[i] \cup {"x", "y"}
        /\ \A f \in DOMAIN prev.layers[i] \ {"x", "y"} :
             prod.value.layers[i][f] = prev.layers[i][f]

\* ================================================================== claims
\* s is a state value with layers (not undefined)
IsState(s) == s # Undefined

\* the last step ran the reducer on a state in which every layer has a snapshot entry
Active ==
  /\ prev # Undefined
  /\ \A i \in 1..Len(prev.layers) : prev.layers[i].id \in DOMAIN prev.initialTransforms

\* the last step ran the reducer on a state with an empty snapshot map
Idle ==
  /\ prev # Undefined
  /\ DOMAIN prev.initialTransforms = {}

\* C1: after moved(dx,dy) on a state whose layers have snapshot entries, every
\* layer's positionX / positionY is its entry's positionX + dx / positionY + dy,
\* whatever the layer's position was before (no compounding).
C1_MovedFromSnapshot ==
  (act.type = "layer/moved" /\ Active) =>
    /\ IsState(state)
    /\ Len(state.layers) = Len(prev.layers)
    /\ \A i \in 1..Len(prev.layers) :
         LET t == prev.initialTransforms[prev.layers[i].id] IN
         /\ state.layers[i].positionX = t.positionX + act.dx
         /\ state.layers[i].positionY = t.positionY + act.dy

\* C2: after moveEnded the snapshot map is empty, from any prior state.
C2_MoveEndedClears ==
  act.type = "layer/moveEnded" =>
    /\ IsState(state)
    /\ DOMAIN state.initialTransforms = {}

\* C3: after resized(dx,dy) on a state whose layers have snapshot entries, every
\* layer's width / height is its entry's width + dx / height + dy (unclamped) and
\* its positionX, positionY and rotate are as before the action.
C3_ResizedFromSnapshot ==
  (act.type = "layer/resized" /\ Active) =>
    /\ thrown = "none"
    /\ IsState(state)
    /\ Len(state.layers) = Len(prev.layers)
    /\ \A i \in 1..Len(prev.layers) :
         LET t == prev.initialTransforms[prev.layers[i].id] IN
         /\ state.layers[i].width = t.width + act.dx
         /\ state.layers[i].height = t.height + act.dy
         /\ state.layers[i].positionX = prev.layers[i].positionX
         /\ state.layers[i].positionY = prev.layers[i].positionY
         /\ state.layers[i].rotate = prev.layers[i].rotate

\* C4: moved or resized on a state with no snapshot entry for a layer raises no
\* error and leaves that layer as it was.
C4_NoSnapshotNoOp ==
  (act.type \in {"layer/moved", "layer/resized"} /\ Idle) =>
    /\ thrown = "none"
    /\ IsState(state)
    /\ state.layers = prev.layers

\* C5: rotated(id, theta) leaves the state as it was when no layer has the id;
\* otherwise it sets that layer's rotate to theta and changes nothing else.
C5_RotatedFrame ==
  act.type = "layer/rotated" =>
    /\ thrown = "none"
    /\ IsState(state)
    /\ state.initialTransforms = prev.initialTransforms
    /\ Len(state.layers) = Len(prev.layers)
    /\ \A i \in 1..Len(prev.layers) :
         IF prev.layers[i].id = act.id
         THEN state.layers[i] = [prev.layers[i] EXCEPT !.rotate = act.nextTheta]
         ELSE state.layers[i] = prev.layers[i]

\* C6: after moveStarted, whatever id its payload names, the snapshot map has an
\* entry for exactly the ids of the layers, each entry is that layer's width,
\* height, positionX, positionY and rotate, and the layers are as before.
C6_MoveStartedSnapshots ==
  act.type = "layer/moveStarted" =>
    /\ IsState(state)
    /\ state.layers = prev.layers
    /\ DOMAIN state.initialTransforms = { prev.layers[i].id : i \in 1..Len(prev.layers) }
    /\ \A i \in 1..Len(prev.layers) :
         state.initialTransforms[prev.layers[i].id] = pick(prev.layers[i])

\* C7: the reducer returns the next state: after a dispatch that raised nothing
\* the held state is the state the recipe built, so the next action works on it.
C7_ReturnsNextState ==
  (act # NoAction /\ thrown = "none") =>
    /\ IsState(state)
    /\ state = prod.value

\* the event has both targets and exactly one entry in changedTouches
OneChangedTouch(e) ==
  /\ e.currentTarget # Null /\ e.target # Null
  /\ Len(e.changedTouches) = 1

C9_EndClearsStart ==
  event.kind = "touchend" =>
    /\ calls = << [fn |-> "onDragEnd"] >>
    /\ initialTouch = Undefined

\* C10: a touch start without a target or current target, or delivered while the
\* contacts on the surface are not exactly one, calls no handler, dispatches no
\* action and leaves the recorded start and the held state as they were.
C10_GuardedStartIgnored ==
  [][ ( /\ event'.kind = "touchstart"
        /\ \/ event'.e.currentTarget = Null
           \/ event'.e.target = Null
           \/ event'.e.touches # 1 ) =>
        /\ calls' = << >>
        /\ act' = NoAction
        /\ initialTouch' = initialTouch
        /\ state' = state
    ]_vars

\* C11: every touch end is processed by the engine as the end of the gesture: the
\* step raises nothing, dispatches moveEnded, and the held state has an empty
\* snapshot map afterwards.
C11_EndTerminatesGesture ==
  event.kind = "touchend" =>
    /\ thrown = "none"
    /\ act.type = "layer/moveEnded"
    /\ IsState(state)
    /\ DOMAIN state.initialTransforms = {}

\* C12: moveEnded changes no layer: the layers after it are the layers before it.
C12_MoveEndedKeepsLayers ==
  act.type = "layer/moveEnded" =>
    /\ IsState(state)
    /\ state.layers = prev.layers

\* the handler the last step of the next state called, "none" when it called none
CalledNext(fn) == calls' # << >> /\ calls'[1].fn = fn

\* C13: the handler calls of a normalizer are ordered Start, Move*, End: onMove is
\* called only after an onDragStart with no onDragEnd since, and onDragStart is not
\* called again before the onDragEnd that closes the first.
C13_StartMoveEndOrder ==
  [][ /\ CalledNext("onMove") => started
      /\ CalledNext("onDragStart") => ~started ]_vars

\* C14: in every state each id with a snapshot entry is the id of a layer, and
\* moved, resized and rotated leave the snapshot entries as the last moveStarted
\* wrote them.
C14_SnapshotsOfLayersKept ==
  /\ IsState(state) =>
       \A id \in DOMAIN state.initialTransforms :
         \E i \in 1..Len(state.layers) : state.layers[i].id = id
  /\ (Active /\ act.type \in {"layer/moved", "layer/resized", "layer/rotated"}) =>
       /\ IsState(state)
       /\ state.initialTransforms = prev.initialTransforms

\* C15: moved is idempotent during a gesture: moved(dx,dy) applied to the result
\* of moved(dx,dy) gives that result again, both for the state the reducer hands
\* to useReducer and for the state its recipe builds.
C15_MovedIdempotent ==
  (act.type = "layer/moved" /\ Active) =>
    /\ thrown = "none"
    /\ reducer(state, act) = [threw |-> "none", value |-> state]
    /\ Produce(prod.value, act) = prod

\* a moved with a non-zero delta has acted on a state with snapshot entries, and
\* its recipe built a state other than its input
C15_Witness ==
  /\ act.type = "layer/moved" /\ Active
  /\ act.dx # 0 /\ act.dy # 0
  /\ prod.value # prev

\* C16: on every move of a rotate gesture the engine is handed rotated with the
\* angle atan2(y - cy, x - cx) of the pointer's absolute position (x, y) about the
\* pivot (cx, cy), and of nothing else.
C16_RotateFromPointer ==
  (event.kind = "touchmove" /\ calls # << >>) =>
    LET p == event.e.changedTouches[1]
        c == event.parentCenter IN
    /\ thrown = "none"
    /\ act.type = "layer/rotated"
    /\ act.nextTheta = Atan2(p.clientY - c[2], p.clientX - c[1])

\* C17: listener registration is symmetric: construction leaves touchstart,
\* touchmove and touchend registered on the element, and destroy leaves none of
\* them registered, so that no raw event reaches a handler after teardown.
C17_ListenersSymmetric ==
  /\ event.kind = "construct" => (thrown = "none" /\ listeners = TouchKinds)
  /\ event.kind = "destroy" => (thrown = "none" /\ listeners = {})

C19_AbandonedGestureRebased ==
  /\ (Active /\ act.type \in {"layer/moved", "layer/resized", "layer/rotated"}) =>
       /\ IsState(state)
       /\ DOMAIN state.initialTransforms = DOMAIN prev.initialTransforms
  /\ (Active /\ act.type = "layer/moveStarted") =>
       /\ IsState(state)
       /\ \A i \in 1..Len(prev.layers) :
            /\ prev.layers[i].id \in DOMAIN state.initialTransforms
            /\ state.initialTransforms[prev.layers[i].id] = pick(prev.layers[i])

\* C20: moved changes positionX and positionY only: the snapshot map, the number
\* and order of the layers, each layer's set of properties and its id, width,
\* height and rotate are as before.
C20_MovedFrame ==
  act.type = "layer/moved" =>
    /\ IsState(state)
    /\ state.initialTransforms = prev.initialTransforms
    /\ Len(state.layers) = Len(prev.layers)
    /\ \A i \in 1..Len(prev.layers) :
         /\ DOMAIN state.layers[i] = DOMAIN prev.layers[i]
         /\ \A f \in {"id", "width", "height", "rotate"} :
              state.layers[i][f] = prev.layers[i][f]

====
